---- MODULE Spec2Model ----
(***************************************************************************)
(* Model of optopus: the domain records of data_objects.py, the Interactive *)
(* Brokers adapter and translator of ib_adapter.py and the event wiring of  *)
(* optopus.py.                                                              *)
(*                                                                          *)
(* Prices are fixed-point numbers counted in halves, so that the midpoint   *)
(* (bid + ask) / 2 of two whole quotes is exact.  A float is a record       *)
(* [nan, v]: nan marks not-a-number, v is the number of halves.             *)
(***************************************************************************)
EXTENDS Integers, Sequences, FiniteSets, TLC

\* ------------------------------------------------------------------ bounds
\* Largest whole quote a broker ticker carries in the model.
MaxPrice == 2
\* Largest strike and underlying price of an option ticker.
MaxStrike == 4
\* Largest model option price of an option ticker.
MaxOptionPrice == 3
\* Largest order quantity of a leg.
MaxQuantity == 2
\* Take-profit / stop-loss factors are the fractions num/den up to these.
MaxFactorNum == 2
MaxFactorDen == 2
\* The broker client hands out request ids below this.
MaxReqId == 9
\* Largest number of contracts a broker position event reports (either sign).
MaxPosition == 1
\* Number of account-value events delivered in one run.
MaxAccountEvents == 2
\* Longest list of assets handed to initialize_assets.
MaxAssets == 2
\* Ticks of the clock in one second, and the last tick of a run.
TicksPerSecond == 2
MaxClock == 4
\* Number of OrderData objects constructed in one run.
MaxOrderData == 2
\* Number of PositionData objects constructed in one run.
MaxPositionData == 2
\* Largest number of candidate contracts of one option chain.
MaxContracts == 101
\* Number of instrument types translated in one run.
MaxTranslated == 2

\* ------------------------------------------------------------------ floats
nan == [nan |-> TRUE, v |-> 0]

Num(halves) == [nan |-> FALSE, v |-> halves]

\* A whole price k, counted in halves.
Price(k) == Num(2 * k)

is_nan(x) == x.nan

\* Python's a <= b on floats: False as soon as one side is not-a-number.
Le(a, b) == ~a.nan /\ ~b.nan /\ a.v <= b.v

\* The literal -1 of data_objects.py line 192.
MinusOne == Price(-1)

\* The quote values a ticker can carry: not-a-number, the broker's -1, 0, ...
Quotes == {nan} \cup {Price(k) : k \in -1..MaxPrice}

None == [none |-> TRUE]

\* Python's None where the other values are strings or tuples.
Nil == "None"

\* The result of a call: the exception that left it, or the value returned.
Raise(exception) == [raised |-> exception, value |-> None]
Return(value) == [raised |-> "", value |-> value]

\* ------------------------------------------------------------------ state
VARIABLES
    snap,       \* the AssetData most recently constructed, or None
    option,     \* the OptionData most recently built by create_options
    reqId,      \* the broker client's next request id (client.getReqId)
    bracket,    \* the leg last submitted and the three orders placed for it
    positions,  \* the ledger's positions, by position_id
    orders,     \* the ledger's orders, by strategy identifier and role
    account,    \* the account snapshot: metric name |-> value held
    accountLog, \* the account-value events handled, each with the snapshot
                \* it found
    lastEvent,  \* the broker event handled last and what became of it
    initialized, \* the last call of initialize_assets and its result
    clock,      \* the wall clock, in ticks of 1 / TicksPerSecond second
    orderData,  \* the OrderData objects constructed, oldest first
    built,      \* the PositionData objects constructed, oldest first
    watched,    \* one Asset of the watch list
    chain,      \* the run of create_optionchain in progress
    startup,    \* the run of Optopus.start and the broker connection
    translated  \* the instrument types translated, oldest first

tradingVars == <<snap, option, reqId, bracket, positions, orders, account, accountLog, lastEvent>>

setupVars == <<initialized, clock, orderData, built, watched, chain, startup, translated>>

vars == <<snap, option, reqId, bracket, positions, orders, account, accountLog, lastEvent, initialized, clock, orderData, built, watched, chain, startup, translated>>

\* ------------------------------------------------- data_objects.AssetData
\* (self.bid + self.ask) / 2
Midpoint(bid, ask) ==
    IF bid.nan \/ ask.nan THEN nan ELSE Num((bid.v + ask.v) \div 2)

\* AssetData.__init__ with an exclusive range test.
AssetDataExclusive(bid, ask, last, close) ==
    LET midpoint == Midpoint(bid, ask)
        lt(a, b) == ~a.nan /\ ~b.nan /\ a.v < b.v
        mp1 == IF is_nan(midpoint) \/ (lt(bid, last) /\ lt(last, ask))
               THEN last ELSE nan
        mp2 == IF is_nan(mp1) THEN midpoint ELSE mp1
        mp3 == IF is_nan(mp2) \/ mp2 = MinusOne THEN close ELSE mp2
    IN  [bid |-> bid, ask |-> ask, last |-> last, close |-> close,
         midpoint |-> midpoint, market_price |-> mp3]

\* AssetData.__init__: the quote fields and the derived market price.
AssetData(bid, ask, last, close) ==
    LET midpoint == Midpoint(bid, ask)
        mp1 == IF is_nan(midpoint) \/ (Le(bid, last) /\ Le(last, ask))
               THEN last ELSE nan
        mp2 == IF is_nan(mp1) THEN midpoint ELSE mp1
        mp3 == IF is_nan(mp2) \/ mp2 = MinusOne THEN close ELSE mp2
    IN  [bid |-> bid, ask |-> ask, last |-> last, close |-> close,
         midpoint |-> midpoint, market_price |-> mp3]

\* ------------------------------------- IBDataAdapter._calculate_moneyness
Max(a, b) == IF a >= b THEN a ELSE b

\* _calculate_moneyness where at-the-money counts as out-of-the-money.
calculate_moneyness_strict(strike, option_price, underlying_price, right) ==
    LET intrinsic_value ==
            IF right = "C" THEN Max(0, underlying_price - strike)
            ELSE Max(0, strike - underlying_price)
        moneyness ==
            IF right = "C"
            THEN IF underlying_price > strike THEN "ITM" ELSE "OTM"
            ELSE IF underlying_price < strike THEN "ITM" ELSE "OTM"
    IN  [moneyness |-> moneyness,
         intrinsic_value |-> intrinsic_value,
         extrinsic_value |-> option_price - intrinsic_value]

\* _calculate_moneyness for right 'C' or 'P' (the rights create_optionchain
\* requests); the values are the members of OptionMoneyness.
calculate_moneyness(strike, option_price, underlying_price, right) ==
    LET intrinsic_value ==
            IF right = "C" THEN Max(0, underlying_price - strike)
            ELSE Max(0, strike - underlying_price)
        moneyness ==
            IF right = "C"
            THEN IF underlying_price > strike THEN "ITM"
                 ELSE IF underlying_price < strike THEN "OTM"
                 ELSE "ITM"
            ELSE IF underlying_price < strike THEN "ITM"
                 ELSE IF underlying_price > strike THEN "OTM"
                 ELSE "ITM"
    IN  [moneyness |-> moneyness,
         intrinsic_value |-> intrinsic_value,
         extrinsic_value |-> option_price - intrinsic_value]

\* ------------------------------------------- IBBrokerAdapter._place_SNP
\* A factor is the fraction num/den.
Factors == {[num |-> n, den |-> d] : n \in 1..MaxFactorNum, d \in 1..MaxFactorDen}

\* data_objects.Leg: the fields the bracket is built from.  order_price is a
\* whole price counted in halves.
Legs == [ownership : {"BUY", "SELL"},
         quantity : 1..MaxQuantity,
         order_price : {2 * k : k \in 1..MaxPrice},
         take_profit_factor : Factors,
         stop_loss_factor : Factors]

\* The order handed to place_order for a leg: the entry instruction at the
\* leg's entry price and quantity.
OrderOfLeg(leg) ==
    [action |-> leg.ownership, quantity |-> leg.quantity,
     price |-> leg.order_price]

\* _place_SNP with the entry order transmitted as soon as it is placed.
place_SNP_transmit_parent(order, id) ==
    LET action == IF order.action = "BUY" THEN "BUY" ELSE "SELL"
        reverse_action == IF action = "SELL" THEN "BUY" ELSE "SELL"
        take_profit_price == order.price \div 2
        stop_loss_price == order.price * 2
        parent == [kind |-> "LimitOrder", action |-> action,
                   totalQuantity |-> order.quantity, price |-> order.price,
                   orderId |-> id, transmit |-> TRUE, parentId |-> 0]
        take_profit == [kind |-> "LimitOrder", action |-> reverse_action,
                        totalQuantity |-> order.quantity,
                        price |-> take_profit_price,
                        orderId |-> id + 1, transmit |-> FALSE,
                        parentId |-> parent.orderId]
        stop_loss == [kind |-> "StopOrder", action |-> reverse_action,
                      totalQuantity |-> order.quantity,
                      price |-> stop_loss_price,
                      orderId |-> id + 2, transmit |-> TRUE,
                      parentId |-> parent.orderId]
    IN  <<parent, take_profit, stop_loss>>

\* _place_SNP: the three broker orders in the sequence they are placed.
\* id is the value the first getReqId() returns; each call returns the next.
\* order.action is the side of the order (OrderData names it ownership).
place_SNP(order, id) ==
    LET action == IF order.action = "BUY" THEN "BUY" ELSE "SELL"
        reverse_action == IF action = "SELL" THEN "BUY" ELSE "SELL"
        take_profit_price == order.price \div 2
        stop_loss_price == order.price * 2
        parent == [kind |-> "LimitOrder", action |-> action,
                   totalQuantity |-> order.quantity, price |-> order.price,
                   orderId |-> id, transmit |-> FALSE, parentId |-> 0]
        take_profit == [kind |-> "LimitOrder", action |-> reverse_action,
                        totalQuantity |-> order.quantity,
                        price |-> take_profit_price,
                        orderId |-> id + 1, transmit |-> FALSE,
                        parentId |-> parent.orderId]
        stop_loss == [kind |-> "StopOrder", action |-> reverse_action,
                      totalQuantity |-> order.quantity,
                      price |-> stop_loss_price,
                      orderId |-> id + 2, transmit |-> TRUE,
                      parentId |-> parent.orderId]
    IN  <<parent, take_profit, stop_loss>>

\* ---------------------------------------------------------- IBTranslator
\* The enumerations of data_objects.py: member name |-> value.
AssetType ==
    [Stock |-> "STK", Option |-> "OPT", Future |-> "FUT", Forex |-> "CASH",
     Index |-> "IND", CFD |-> "CFD", Bond |-> "BOND", Commodity |-> "CMDTY",
     FuturesOption |-> "FOP", MutualFund |-> "FUND", Warrant |-> "IOPT"]

StrategyType == [SellNakedPut |-> "SNP"]

RightType == [Call |-> "C", Put |-> "P"]

OwnershipType == [Buyer |-> "BUY", Seller |-> "SELL"]

OrderRol == [NewLeg |-> "NL", TakeProfit |-> "TP", StopLoss |-> "SL"]

OrderStatus ==
    [APIPending |-> "API pending", PendingSubmit |-> "Pending submit",
     PendingCancel |-> "Pending cancel", PreSubmitted |-> "Presubmitted",
     Submitted |-> "Submitted", APICancelled |-> "API cancelled",
     Cancelled |-> "Cancelled", Filled |-> "Filled",
     Inactive |-> "Inactive"]

\* The translation tables of IBTranslator.__init__: broker code |-> member.
sectype_translation ==
    [STK |-> "Stock", OPT |-> "Option", FUT |-> "Future", CASH |-> "Future",
     IND |-> "Index", CFD |-> "CFD", BOND |-> "Bond", CMDTY |-> "Commodity",
     FOP |-> "FuturesOption", FUND |-> "MutualFund", IOPT |-> "Warrant"]

right_translation == [C |-> "Call", P |-> "Put"]

order_status_translation ==
    [PendingSubmit |-> "PendingSubmit", PendingCancel |-> "PendingCancel",
     PreSubmitted |-> "PreSubmitted", Submitted |-> "Submitted",
     Cancelled |-> "Cancelled", Filled |-> "Filled",
     Inactive |-> "Inactive"]

ownership_translation == [BUY |-> "Buyer", SELL |-> "Seller"]

strategy_translation == [SNP |-> "SellNakedPut"]

\* utils.parse_ib_date: the broker's 'YYYYMMDD', here <<year, month, day>>,
\* as a date.
parse_ib_date(text) == [year |-> text[1], month |-> text[2], day |-> text[3]]

\* date.strftime('%d-%m-%Y')
strftime(date) == <<date.day, date.month, date.year>>

\* round(strike, 1) of a strike counted in hundredths, as tenths.  The
\* strikes of the model are not halfway between two tenths.
Round1(strike) == (strike + 5) \div 10

\* PositionData.__init__: ownership.value, right.value and
\* expiration.strftime are read for position_id, so None in any of them
\* raises AttributeError.
PositionData(code, asset_type, ownership, quantity, expiration, strike, right, average_cost) ==
    IF ownership = Nil \/ right = Nil \/ expiration = None
    THEN Raise("AttributeError")
    ELSE Return([code |-> code, asset_type |-> asset_type,
                 ownership |-> ownership, expiration |-> expiration,
                 strike |-> strike, right |-> right, quantity |-> quantity,
                 position_id |-> <<code, OwnershipType[ownership],
                                   RightType[right], Round1(strike),
                                   strftime(expiration)>>,
                 average_cost |-> average_cost,
                 algorithm |-> Nil, strategy |-> Nil, rol |-> Nil])

Abs(n) == IF n < 0 THEN -n ELSE n

\* translate_position where an unknown instrument type becomes None instead
\* of raising (dict.get in place of the subscript).
translate_position_get(item) ==
    LET contract == item.contract
        asset_type == IF contract.secType \in DOMAIN sectype_translation
                      THEN sectype_translation[contract.secType] ELSE Nil
        ownership == IF item.position > 0 THEN "Buyer"
                     ELSE IF item.position < 0 THEN "Seller"
                     ELSE Nil
        expiration == IF contract.lastTradeDateOrContractMonth # <<>>
                      THEN parse_ib_date(contract.lastTradeDateOrContractMonth)
                      ELSE None
    IN  IF contract.right # "" /\ contract.right \notin DOMAIN right_translation
        THEN Raise("KeyError")
        ELSE PositionData(contract.symbol, asset_type, ownership,
                          Abs(item.position), expiration, contract.strike,
                          IF contract.right # ""
                          THEN right_translation[contract.right] ELSE Nil,
                          item.avgCost)

\* IBTranslator.translate_position
translate_position(item) ==
    LET contract == item.contract
        ownership == IF item.position > 0 THEN "Buyer"
                     ELSE IF item.position < 0 THEN "Seller"
                     ELSE Nil
        expiration == IF contract.lastTradeDateOrContractMonth # <<>>
                      THEN parse_ib_date(contract.lastTradeDateOrContractMonth)
                      ELSE None
    IN  IF contract.secType \notin DOMAIN sectype_translation
        THEN Raise("KeyError")
        ELSE IF contract.right # "" /\ contract.right \notin DOMAIN right_translation
        THEN Raise("KeyError")
        ELSE PositionData(contract.symbol,
                          sectype_translation[contract.secType], ownership,
                          Abs(item.position), expiration, contract.strike,
                          IF contract.right # ""
                          THEN right_translation[contract.right] ELSE Nil,
                          item.avgCost)

\* IBTranslator._account_translation
account_translation ==
    [AccountCode |-> "id", AvailableFunds |-> "funds",
     BuyingPower |-> "buying_power", TotalCashValue |-> "cash",
     DayTradesRemaining |-> "max_day_trades",
     NetLiquidation |-> "net_liquidation",
     InitMarginReq |-> "initial_margin",
     MaintMarginReq |-> "maintenance_margin",
     ExcessLiquidity |-> "excess_liquidity", Cushion |-> "cushion",
     GrossPositionValue |-> "gross_position_value",
     EquityWithLoanValue |-> "equity_with_loan", SMA |-> "SMA"]

\* settings.CURRENCY.value
CURRENCY == "USD"

\* The texts float() accepts, among the values of the model.
NumberTexts == {"7"}

\* is_number
is_number(text) == text \in NumberTexts

\* A plain value and a Money, as an account field holds them.
Value(text) == [kind |-> "value", text |-> text]
Money(text, currency) == [kind |-> "money", text |-> text, currency |-> currency]

\* _translate_account_tag handing an unknown tag on as it came.
translate_account_tag_passthrough(ib_tag) ==
    IF ib_tag \in DOMAIN account_translation
    THEN account_translation[ib_tag] ELSE ib_tag

\* IBTranslator._translate_account_tag
translate_account_tag(ib_tag) ==
    IF ib_tag \in DOMAIN account_translation
    THEN account_translation[ib_tag] ELSE Nil

\* IBTranslator._translate_value_currency
translate_value_currency(ib_value, ib_currency) ==
    IF ib_currency = CURRENCY THEN Money(ib_value, CURRENCY) ELSE None

\* translate_account_value with the else attached to the inner if: a value
\* that is not a number in a currency is lost.
translate_account_value_inner_else(item) ==
    LET opt_tag == translate_account_tag(item.tag)
        numeric == item.currency # "" /\ is_number(item.value)
        opt_money == IF numeric /\ item.currency # "BASE"
                     THEN translate_value_currency(item.value, item.currency)
                     ELSE None
        opt_value == IF numeric /\ item.currency = "BASE"
                     THEN Value(item.value) ELSE None
    IN  IF opt_tag # Nil
        THEN [account |-> item.account, tag |-> opt_tag,
              value |-> opt_value, money |-> opt_money]
        ELSE None

\* IBTranslator.translate_account_value: the AccountItem, or None for a tag
\* that is not in the table.
translate_account_value(item) ==
    LET opt_tag == translate_account_tag(item.tag)
        numeric == item.currency # "" /\ is_number(item.value)
        opt_money == IF numeric /\ item.currency # "BASE"
                     THEN translate_value_currency(item.value, item.currency)
                     ELSE None
        opt_value == IF numeric THEN None ELSE Value(item.value)
    IN  IF opt_tag # Nil
        THEN [account |-> item.account, tag |-> opt_tag,
              value |-> opt_value, money |-> opt_money]
        ELSE None

\* IBTranslator.translate_trade.  orderRef is the reference string as its
\* '-' separated parts, each part as its '_' separated fields; the two
\* unpacking assignments raise ValueError on any other number of parts.
\* Without an orderRef, algorithm is read unbound when the TradeData is
\* built.  The TradeData returned has the fields translate_trade passes
\* (data_objects.TradeData declares order_id, status, remaining and
\* commission instead; ib_adapter.py is written against the other set).
translate_trade(item) ==
    LET contract == item.contract
        orderRef == item.order.orderRef
        expiration == IF contract.lastTradeDateOrContractMonth # <<>>
                      THEN parse_ib_date(contract.lastTradeDateOrContractMonth)
                      ELSE None
        strategy_id == orderRef[2]
    IN  IF contract.secType \notin DOMAIN sectype_translation
        THEN Raise("KeyError")
        ELSE IF item.order.action \notin DOMAIN ownership_translation
        THEN Raise("KeyError")
        ELSE IF contract.right # "" /\ contract.right \notin DOMAIN right_translation
        THEN Raise("KeyError")
        ELSE IF orderRef # <<>> /\ Len(orderRef) # 3
        THEN Raise("ValueError")
        ELSE IF orderRef # <<>> /\ Len(strategy_id) # 4
        THEN Raise("ValueError")
        ELSE IF orderRef # <<>> /\ strategy_id[2] \notin DOMAIN strategy_translation
        THEN Raise("KeyError")
        ELSE IF item.orderStatus.status \notin DOMAIN order_status_translation
        THEN Raise("KeyError")
        ELSE IF orderRef = <<>>
        THEN Raise("UnboundLocalError")
        ELSE Return([code |-> contract.symbol,
                     asset_type |-> sectype_translation[contract.secType],
                     expiration |-> expiration,
                     ownership |-> ownership_translation[item.order.action],
                     quantity |-> item.orderStatus.filled,
                     strike |-> contract.strike,
                     right |-> IF contract.right # ""
                               THEN right_translation[contract.right]
                               ELSE Nil,
                     algorithm |-> orderRef[1],
                     strategy_id |-> strategy_id,
                     strategy_type |-> strategy_translation[strategy_id[2]],
                     rol |-> orderRef[3],
                     implied_volatility |-> IF item.order.volatility # 0
                                            THEN Num(item.order.volatility)
                                            ELSE nan,
                     order_status |->
                         order_status_translation[item.orderStatus.status],
                     price |-> item.orderStatus.avgFillPrice])

\* ------------------------------------------------- the broker's contracts
Expiry == <<2018, 12, 21>>

OptionContract(right) ==
    [symbol |-> "SPY", secType |-> "OPT",
     lastTradeDateOrContractMonth |-> Expiry, right |-> right, strike |-> 27000]

StockContract ==
    [symbol |-> "SPY", secType |-> "STK",
     lastTradeDateOrContractMonth |-> <<>>, right |-> "", strike |-> 0]

\* A warrant as the broker reports it: 'WAR' is not in the translator's
\* table.
WarrantContract ==
    [symbol |-> "SPY", secType |-> "WAR",
     lastTradeDateOrContractMonth |-> Expiry, right |-> "C", strike |-> 27000]

AvgCosts == {1, 2}

\* ib_insync Position events.
PositionItems ==
    [contract : {OptionContract("P"), OptionContract("C"), StockContract,
                 WarrantContract},
     position : -MaxPosition..MaxPosition,
     avgCost : AvgCosts]

\* --------------------------------------------------------- the ledger
\* DataManager._position: insert by position_id; overwrite quantity and
\* average cost of a position already held and keep its linkage; drop the
\* position on a quantity of zero.
DataManager_position_add(ledger, p) ==
    LET id == p.position_id
    IN  IF p.quantity = 0
        THEN [k \in DOMAIN ledger \ {id} |-> ledger[k]]
        ELSE IF id \in DOMAIN ledger
        THEN [ledger EXCEPT ![id].quantity = @ + p.quantity,
                            ![id].average_cost = p.average_cost]
        ELSE [k \in DOMAIN ledger \cup {id} |->
                 IF k = id THEN p ELSE ledger[k]]

DataManager_position(ledger, p) ==
    LET id == p.position_id
    IN  IF p.quantity = 0
        THEN [k \in DOMAIN ledger \ {id} |-> ledger[k]]
        ELSE IF id \in DOMAIN ledger
        THEN [ledger EXCEPT ![id].quantity = p.quantity,
                            ![id].average_cost = p.average_cost]
        ELSE [k \in DOMAIN ledger \cup {id} |->
                 IF k = id THEN p ELSE ledger[k]]

\* The reference strings of the orders the broker reports.
KnownRef == << <<"algo">>, <<"SPY", "SNP", "051118", "1">>, <<"NL">> >>

OrderRefs ==
    { KnownRef,
      << <<"algo">>, <<"QQQ", "SNP", "051118", "1">>, <<"NL">> >>,
      << <<"algo">>, <<"SPY", "SNP", "051118", "1">> >>,
      << <<"algo">>, <<"SPY", "SNP">>, <<"NL">> >>,
      << <<"algo">>, <<"SPY", "IC", "051118", "1">>, <<"NL">> >>,
      <<>> }

\* The status strings of the broker's API.
BrokerStatuses ==
    {"ApiPending", "PendingSubmit", "PendingCancel", "PreSubmitted",
     "Submitted", "ApiCancelled", "Cancelled", "Filled", "Inactive"}

Trade(contract, action, orderRef, status) ==
    [contract |-> contract,
     order |-> [action |-> action, orderRef |-> orderRef, volatility |-> 0],
     orderStatus |-> [status |-> status, avgFillPrice |-> 1, filled |-> 1]]

\* ib_insync Trade events: every status and reference for a sold put, and
\* one event for each code the translator does not know.
TradeItems ==
    {Trade(OptionContract("P"), "SELL", orderRef, status) :
        orderRef \in OrderRefs, status \in BrokerStatuses}
    \cup {Trade(WarrantContract, "SELL", KnownRef, "Filled"),
          Trade(OptionContract("P"), "SSHORT", KnownRef, "Filled"),
          Trade(OptionContract("P"), "BUY", KnownRef, "Submitted")}

\* The legal status transitions of an order.
Transitions ==
    {<<"APIPending", "PendingSubmit">>,
     <<"PendingSubmit", "PreSubmitted">>, <<"PendingSubmit", "Submitted">>,
     <<"PreSubmitted", "Filled">>, <<"PreSubmitted", "Cancelled">>,
     <<"PreSubmitted", "Inactive">>,
     <<"Submitted", "Filled">>, <<"Submitted", "Cancelled">>,
     <<"Submitted", "Inactive">>,
     <<"PendingCancel", "Cancelled">>}
    \cup {<<s, t>> : s \in {"APIPending", "PendingSubmit", "PreSubmitted",
                             "Submitted"},
                     t \in {"APICancelled", "PendingCancel"}}

RECURSIVE ReachFrom(_)
ReachFrom(S) ==
    LET N == S \cup {tr[2] : tr \in {x \in Transitions : x[1] \in S}}
    IN  IF N = S THEN S ELSE ReachFrom(N)

\* new is reachable from old by one or more legal transitions.
Reachable(old, new) ==
    new \in ReachFrom({tr[2] : tr \in {x \in Transitions : x[1] = old}})

\* DataManager._commission_report where the reported status is assigned
\* whatever the order's status is.
DataManager_commission_report_assign(ledger, trade) ==
    LET id == <<trade.strategy_id, trade.rol>>
    IN  IF id \notin DOMAIN ledger
        THEN [ledger |-> ledger, anomaly |-> "orphaned trade"]
        ELSE [ledger |-> [ledger EXCEPT ![id].status = trade.order_status,
                                        ![id].filled_price = trade.price],
              anomaly |-> ""]

\* DataManager._commission_report where a trade for an unknown order enters
\* the order into the ledger.
DataManager_commission_report_upsert(ledger, trade) ==
    LET id == <<trade.strategy_id, trade.rol>>
    IN  IF id \notin DOMAIN ledger
        THEN [ledger |-> [k \in DOMAIN ledger \cup {id} |->
                             IF k = id
                             THEN [rol |-> "NewLeg",
                                   status |-> trade.order_status,
                                   filled_price |-> trade.price]
                             ELSE ledger[k]],
              anomaly |-> "orphaned trade"]
        ELSE IF \/ trade.order_status = ledger[id].status
                \/ Reachable(ledger[id].status, trade.order_status)
        THEN [ledger |-> [ledger EXCEPT ![id].status = trade.order_status,
                                        ![id].filled_price = trade.price],
              anomaly |-> ""]
        ELSE [ledger |-> ledger, anomaly |-> "status regression"]

\* DataManager._commission_report: locate the order by identifier; without
\* it record an orphaned trade; advance its status when the reported one is
\* reachable (or the same), and write the leg's observed fill price; discard
\* any other status as an anomaly.
DataManager_commission_report(ledger, trade) ==
    LET id == <<trade.strategy_id, trade.rol>>
    IN  IF id \notin DOMAIN ledger
        THEN [ledger |-> ledger, anomaly |-> "orphaned trade"]
        ELSE IF \/ trade.order_status = ledger[id].status
                \/ Reachable(ledger[id].status, trade.order_status)
        THEN [ledger |-> [ledger EXCEPT ![id].status = trade.order_status,
                                        ![id].filled_price = trade.price],
              anomaly |-> ""]
        ELSE [ledger |-> ledger, anomaly |-> "status regression"]

\* ib_insync AccountValue events: every tag of the table and one that is
\* not in it, a number and a text, no currency, the account's and BASE.
AccountValues ==
    [account : {"DU1"},
     tag : DOMAIN account_translation \cup {"Leverage"},
     value : {"7", "DU1"},
     currency : {"", "USD", "BASE"}]

\* Account.update_item_value: the field the item names takes the item's
\* money, or else its value; no other field is written.
Account_update_item_value(snapshot, item) ==
    [snapshot EXCEPT ![item.tag] =
        IF item.money # None THEN item.money ELSE item.value]

\* The linkage match_trades_positions gives the position of a sold leg.
Linkage == [algorithm |-> "algo", strategy |-> "SPY_SNP", rol |-> "NL"]

\* An event was dropped with an anomaly: an exception left its handler, or
\* the ledger recorded one.
Anomalous(event) == event.raised # "" \/ event.anomaly # ""

\* ------------------------------------ IBTranslator._sectype_translation
\* The instrument-type codes of broker contracts: the codes of the
\* translator's table and one the table does not have.
SecTypes == DOMAIN sectype_translation \cup {"WAR"}

\* self._translator._sectype_translation[secType]: the AssetType member,
\* or KeyError for a code that is not in the table.
translate_sectype(secType) ==
    IF secType \in DOMAIN sectype_translation
    THEN Return(sectype_translation[secType])
    ELSE Raise("KeyError")

\* ------------------------------------- IBDataAdapter.initialize_assets
\* The codes and the asset types of the assets a watch list may hold.
WatchCodes == {"SPY", "VIX", "ES"}

WatchTypes == {"Index", "Stock", "Future"}

\* data_objects.Asset, as initialize_assets reads it.
Assets == [code : WatchCodes, asset_type : WatchTypes]

\* The lists of at most MaxAssets assets, each code at most once.
AssetLists ==
    {l \in UNION {[1..n -> Assets] : n \in 0..MaxAssets} :
        \A i, j \in DOMAIN l : i # j => l[i].code # l[j].code}

\* Index(asset.code, currency=CURRENCY.value)
IndexContract(code) ==
    [symbol |-> code, secType |-> AssetType.Index, exchange |-> "",
     currency |-> CURRENCY]

\* Stock(asset.code, exchange='SMART', currency=CURRENCY.value)
SmartStockContract(code) ==
    [symbol |-> code, secType |-> AssetType.Stock, exchange |-> "SMART",
     currency |-> CURRENCY]

\* The loop of initialize_assets: one contract for an Index, one for a
\* Stock, none for an asset of any other type.
RECURSIVE initialize_assets_contracts(_)
initialize_assets_contracts(assets) ==
    IF Len(assets) = 0 THEN <<>>
    ELSE LET asset == Head(assets)
             rest == initialize_assets_contracts(Tail(assets))
         IN  IF asset.asset_type = "Index"
             THEN <<IndexContract(asset.code)>> \o rest
             ELSE IF asset.asset_type = "Stock"
             THEN <<SmartStockContract(asset.code)>> \o rest
             ELSE rest

\* The contracts of l the mask keeps, in the order of l.
RECURSIVE Keep(_, _)
Keep(l, mask) ==
    IF Len(l) = 0 THEN <<>>
    ELSE LET n == Len(l)
             front == Keep(SubSeq(l, 1, n - 1), mask)
         IN  IF mask[n] THEN Append(front, l[n]) ELSE front

\* ib.qualifyContracts(*contracts): the broker answers with the contracts
\* it could qualify, in the order requested.
qualifyContracts(contracts) ==
    {Keep(contracts, mask) : mask \in [1..Len(contracts) -> BOOLEAN]}

\* {c.symbol: c for c in q_contracts}: a later contract of the same symbol
\* replaces an earlier one.
BySymbol(q_contracts) ==
    [symbol \in {q_contracts[i].symbol : i \in 1..Len(q_contracts)} |->
        LET last == CHOOSE i \in 1..Len(q_contracts) :
                        /\ q_contracts[i].symbol = symbol
                        /\ \A j \in 1..Len(q_contracts) :
                              q_contracts[j].symbol = symbol => j <= i
        IN  q_contracts[last]]

\* The end of initialize_assets: the number of qualified contracts is
\* compared with the number of assets.
initialize_assets(assets, q_contracts) ==
    IF Len(q_contracts) = Len(assets)
    THEN Return(BySymbol(q_contracts))
    ELSE Raise("ValueError")

\* ----------------------------------------------- data_objects.PositionData
\* Two strikes, in hundredths, that differ in the second decimal only.
Strikes == {27000, 27004}

OptionContractAt(right, strike) ==
    [OptionContract(right) EXCEPT !.strike = strike]

\* Position events of option contracts with a quantity other than zero.
StrikeItems ==
    [contract : {OptionContractAt(right, strike) :
                     right \in {"P", "C"}, strike \in Strikes},
     position : (-MaxPosition..MaxPosition) \ {0},
     avgCost : AvgCosts]

\* The composite key of a position: code, ownership side, right, strike and
\* expiration, as PositionData.__init__ stores them.
CompositeKey(p) == <<p.code, p.ownership, p.right, p.strike, p.expiration>>

\* -------------------------------------------------- data_objects.OrderData
\* created.strftime('%d-%m-%Y %H:%M:%S'): the time to the whole second.
strftime_seconds(time) == time \div TicksPerSecond

\* The references an order is created under: strategy identifiers.
References == {"SPY_SNP", "VIX_SNP"}

\* reference + '_' + rol.value + ' ' + created.strftime(...), as the three
\* parts the string is made of.
order_id(reference, rol, time) ==
    <<reference, OrderRol[rol], strftime_seconds(time)>>

\* OrderData.__init__ at the time now: the fields set from the clock, the
\* initial status and the identifier.
OrderData(reference, rol, now) ==
    [rol |-> rol, created |-> now, updated |-> now,
     status |-> "APIPending", order_id |-> order_id(reference, rol, now)]

\* ------------------------------------------------------ data_objects.Asset
\* Asset.__init__: no snapshot and no historical data yet.  A time is a
\* reading of the clock, NoTime where the code holds None.
NoTime == -1

\* The attribute _historical_data_updated does not exist before a setter
\* of historical data has run; NoTime stands for that as well.
AssetInit ==
    [_data |-> None, _historical_data |-> Nil, _historical_IV_data |-> Nil,
     _historical_updated |-> NoTime, _historical_IV_updated |-> NoTime,
     _historical_data_updated |-> NoTime]

\* The market snapshots handed to Asset.current: AssetData objects, of
\* which the time of the ticker and the close are kept.
Snapshots == [time : 0..MaxClock, close : 1..MaxPrice]

\* The bar series handed to Asset.historical and Asset.historical_IV.
BarSeries == {"bars"}

\* The setter of Asset.current: self._data = values
current_setter(self, values) == [self EXCEPT !._data = values]

\* The setter of Asset.historical
historical_setter(self, values, now) ==
    [self EXCEPT !._historical_data = values,
                 !._historical_data_updated = now]

\* The setter of Asset.historical_IV
historical_IV_setter(self, values, now) ==
    [self EXCEPT !._historical_IV_data = values,
                 !._historical_data_updated = now]

\* Ticks of the clock in one day: timedelta.days counts whole days.
TicksPerDay == 24 * 60 * 60 * TicksPerSecond

\* Asset.historical_is_updated at the time now: it reads
\* self._historical_updated; a datetime is true, None is false.
historical_is_updated(self, now) ==
    IF self._historical_updated # NoTime
    THEN (now - self._historical_updated) \div TicksPerDay # 0
    ELSE FALSE

\* Asset.historical_IV_is_updated at the time now: it reads
\* self._historical_IV_updated.
historical_IV_is_updated(self, now) ==
    IF self._historical_IV_updated # NoTime
    THEN (now - self._historical_IV_updated) \div TicksPerDay # 0
    ELSE FALSE

\* ------------------------------------- IBDataAdapter.create_optionchain
\* The batch size of create_optionchain and create_options.
BatchSize == 50

Min(a, b) == IF a <= b THEN a ELSE b

\* chunks(l, n) from the index i of range(0, len(l), n) on: the slices
\* l[i:i+n], in the order they are yielded.
RECURSIVE chunks_from(_, _, _)
chunks_from(l, n, i) ==
    IF i >= Len(l) THEN <<>>
    ELSE <<SubSeq(l, i + 1, Min(i + n, Len(l)))>> \o chunks_from(l, n, i + n)

\* chunks with slices one item too long: l[i:i+n+1]
chunks_overlap(l, n) ==
    LET RECURSIVE from(_)
        from(i) == IF i >= Len(l) THEN <<>>
                   ELSE <<SubSeq(l, i + 1, Min(i + n + 1, Len(l)))>>
                            \o from(i + n)
    IN  from(0)

\* utils.chunks
chunks(l, n) == chunks_from(l, n, 0)

\* One call of the broker client in the log of a run.
Call(op, args) == [op |-> op, args |-> args]

\* The answers of qualifyContracts to one batch: every contract, or every
\* contract but one the broker does not know.
qualifyBatch(c) == {c} \cup (IF Len(c) > 0 THEN {Tail(c)} ELSE {})

\* No run of create_optionchain has started.
ChainIdle == [pc |-> "idle"]

\* ----------------------------------------------------------- Optopus.start
\* The callback slots IBBrokerAdapter.__init__ sets to None.
Slots ==
    {"emit_account_item_event", "emit_position_event",
     "emit_execution_details", "emit_commission_report", "emit_new_order",
     "emit_order_status"}

\* The broker events IBBrokerAdapter.__init__ subscribes a handler to, each
\* with the slot its handler invokes.
Subscribed ==
    [accountValueEvent |-> "emit_account_item_event",
     positionEvent |-> "emit_position_event",
     newOrderEvent |-> "emit_new_order",
     orderStatusEvent |-> "emit_order_status",
     commissionReportEvent |-> "emit_commission_report"]

\* Optopus.start with the broker connected before the slots are assigned.
StartStatementsConnectFirst ==
    <<"managers", "connect", "emit_account_item_event",
      "emit_position_event", "emit_new_order", "emit_order_status",
      "emit_commission_report", "sleep", "match_trades_positions",
      "initialize_assets", "update_assets">>

\* Optopus.start, statement by statement: a slot name is the assignment of
\* that slot.
StartStatements ==
    <<"managers", "emit_account_item_event", "emit_position_event",
      "emit_new_order", "emit_order_status", "emit_commission_report",
      "connect", "sleep", "match_trades_positions", "initialize_assets",
      "update_assets">>

\* After IBBrokerAdapter.__init__ and before Optopus.start: every slot is
\* None and the broker is not connected.
StartupInit ==
    [pc |-> 1, slots |-> [slot \in Slots |-> FALSE], connected |-> FALSE,
     delivered |-> {}, unassigned |-> {}]

\* ------------------------------------------------------------------ init
Init ==
    /\ snap = None
    /\ option = None
    /\ reqId = 1
    /\ bracket = None
    /\ positions = <<>>
    /\ orders = <<>>
    /\ account = [metric \in {account_translation[t] :
                                 t \in DOMAIN account_translation} |-> None]
    /\ accountLog = <<>>
    /\ lastEvent = [kind |-> "none", item |-> None, raised |-> "",
                    anomaly |-> "", repeated |-> FALSE,
                    afterAnomaly |-> FALSE]
    /\ initialized = None
    /\ clock = 0
    /\ orderData = <<>>
    /\ built = <<>>
    /\ watched = AssetInit
    /\ chain = ChainIdle
    /\ startup = StartupInit
    /\ translated = <<>>

\* --------------------------------------------------------------- actions
\* IBDataAdapter.update_assets builds one AssetData per ticker.
update_assets ==
    /\ \E bid \in Quotes, ask \in Quotes, last \in Quotes, close \in Quotes :
            snap' = AssetData(bid, ask, last, close)
    /\ UNCHANGED <<option, reqId, bracket, positions, orders, account, accountLog, lastEvent>>
    /\ UNCHANGED setupVars

NextPrice == update_assets

SpecPrice == Init /\ [][NextPrice]_vars

\* IBDataAdapter.create_options, one ticker: without model Greeks, or with an
\* underlying price of 0, moneyness stays NA and the values not-a-number.
create_options ==
    /\ \E modelGreeks \in BOOLEAN, strike \in 1..MaxStrike,
          optPrice \in 0..MaxOptionPrice, undPrice \in 0..MaxStrike,
          right \in {"C", "P"} :
            option' =
                IF modelGreeks /\ undPrice # 0
                THEN LET m == calculate_moneyness(strike, optPrice,
                                                  undPrice, right)
                     IN  [strike |-> strike, right |-> right,
                          option_price |-> Num(optPrice),
                          underlying_price |-> Num(undPrice),
                          moneyness |-> m.moneyness,
                          intrinsic_value |-> Num(m.intrinsic_value),
                          extrinsic_value |-> Num(m.extrinsic_value)]
                ELSE [strike |-> strike, right |-> right,
                      option_price |-> IF modelGreeks THEN Num(optPrice) ELSE nan,
                      underlying_price |-> IF modelGreeks THEN Num(undPrice) ELSE nan,
                      moneyness |-> "NA",
                      intrinsic_value |-> nan,
                      extrinsic_value |-> nan]
    /\ UNCHANGED <<snap, reqId, bracket, positions, orders, account, accountLog, lastEvent>>
    /\ UNCHANGED setupVars

NextOption == create_options

SpecOption == Init /\ [][NextOption]_vars

\* IBBrokerAdapter.place_order for a leg's entry order: _place_SNP draws
\* three request ids and places parent, take-profit and stop-loss.
place_order ==
    /\ reqId + 2 <= MaxReqId
    /\ \E leg \in Legs :
            bracket' = [leg |-> leg,
                        orders |-> place_SNP(OrderOfLeg(leg), reqId)]
    /\ reqId' = reqId + 3
    /\ UNCHANGED <<snap, option, positions, orders, account, accountLog, lastEvent>>
    /\ UNCHANGED setupVars

NextOrder == place_order

SpecOrder == Init /\ [][NextOrder]_vars

\* The invocations of emit_account_item_event one account-value event
\* causes: 'if account_item:' is true for an AccountItem object and false
\* for None.
emit_account_item_calls(account_item) ==
    IF account_item # None THEN <<account_item>> ELSE <<>>

\* IBBrokerAdapter._onAccountValueEvent: a translated item goes to
\* emit_account_item_event, which Optopus.start set to
\* Optopus._change_account_item, which updates the account.
onAccountValueEvent ==
    /\ Len(accountLog) < MaxAccountEvents
    /\ \E item \in AccountValues :
        LET account_item == translate_account_value(item)
            calls == emit_account_item_calls(account_item)
        IN  /\ account' = IF Len(calls) = 1
                          THEN Account_update_item_value(account, calls[1])
                          ELSE account
            /\ accountLog' = Append(accountLog,
                                    [item |-> item, before |-> account,
                                     calls |-> calls])
    /\ UNCHANGED <<snap, option, reqId, bracket, positions, orders,
                   lastEvent>>
    /\ UNCHANGED setupVars

NextAccount == onAccountValueEvent

SpecAccount == Init /\ [][NextAccount]_vars

\* IBBrokerAdapter._onPositionEvent, one broker position event from items:
\* translate it and hand the PositionData (an object, always true) to
\* emit_position_event, which Optopus.start set to DataManager._position.
\* An exception of the translation leaves the handler before the emit.
onPositionEvent(items) ==
    \E item \in items :
        LET position == translate_position(item)
        IN  /\ positions' = IF position.raised = ""
                            THEN DataManager_position(positions, position.value)
                            ELSE positions
            /\ lastEvent' = [kind |-> "position", item |-> item,
                             raised |-> position.raised, anomaly |-> "",
                             repeated |-> (lastEvent.kind = "position"
                                           /\ lastEvent.item = item),
                             afterAnomaly |-> Anomalous(lastEvent)]

PositionEvent ==
    /\ onPositionEvent(PositionItems)
    /\ UNCHANGED <<snap, option, reqId, bracket, orders, account, accountLog>>
    /\ UNCHANGED setupVars

\* DataManager.match_trades_positions: a position held as seller is linked
\* to the strategy, leg and role that produced it.
match_trades_positions ==
    /\ \E id \in DOMAIN positions :
            /\ positions[id].ownership = "Seller"
            /\ positions[id].algorithm = Nil
            /\ positions' = [positions EXCEPT
                                ![id].algorithm = Linkage.algorithm,
                                ![id].strategy = Linkage.strategy,
                                ![id].rol = Linkage.rol]
    /\ lastEvent' = [kind |-> "match", item |-> None, raised |-> "",
                     anomaly |-> "", repeated |-> FALSE,
                     afterAnomaly |-> FALSE]
    /\ UNCHANGED <<snap, option, reqId, bracket, orders, account, accountLog>>
    /\ UNCHANGED setupVars

NextPosition == PositionEvent \/ match_trades_positions

\* OrderManager.process: the entry order of a strategy enters the ledger as
\* OrderData.__init__ leaves it, with status APIPending.
process ==
    /\ LET id == <<KnownRef[2], KnownRef[3]>>
       IN  /\ id \notin DOMAIN orders
           /\ orders' = [k \in DOMAIN orders \cup {id} |->
                            IF k = id
                            THEN [rol |-> "NewLeg", status |-> "APIPending",
                                  filled_price |-> 0]
                            ELSE orders[k]]
    /\ lastEvent' = [kind |-> "process", item |-> None, raised |-> "",
                     anomaly |-> "", repeated |-> FALSE,
                     afterAnomaly |-> FALSE]
    /\ UNCHANGED <<snap, option, reqId, bracket, positions, account, accountLog>>
    /\ UNCHANGED setupVars

\* IBBrokerAdapter._onCommissionReportEvent: translate the trade and hand it
\* to emit_commission_report, which Optopus.start set to
\* DataManager._commission_report.  An exception of the translation leaves
\* the handler before the emit.
onCommissionReportEvent ==
    /\ \E item \in TradeItems :
        LET trade_data == translate_trade(item)
            report == IF trade_data.raised = ""
                      THEN DataManager_commission_report(orders,
                                                         trade_data.value)
                      ELSE [ledger |-> orders, anomaly |-> ""]
        IN  /\ orders' = report.ledger
            /\ lastEvent' = [kind |-> "trade", item |-> item,
                             raised |-> trade_data.raised,
                             anomaly |-> report.anomaly,
                             repeated |-> (lastEvent.kind = "trade"
                                           /\ lastEvent.item = item),
                             afterAnomaly |-> Anomalous(lastEvent)]
    /\ UNCHANGED <<snap, option, reqId, bracket, positions, account, accountLog>>
    /\ UNCHANGED setupVars

\* IBBrokerAdapter._onOrderStatusEvent: emit_order_status() carries nothing
\* and Optopus._order_status does nothing.
onOrderStatusEvent ==
    /\ \E status \in BrokerStatuses :
            lastEvent' = [kind |-> "orderStatus", item |-> [status |-> status],
                          raised |-> "", anomaly |-> "", repeated |-> FALSE,
                          afterAnomaly |-> Anomalous(lastEvent)]
    /\ UNCHANGED <<snap, option, reqId, bracket, positions, orders, account,
                   accountLog>>
    /\ UNCHANGED setupVars

\* IBBrokerAdapter._onNewOrderEvent: emit_new_order() carries nothing and
\* Optopus._new_order does nothing.
onNewOrderEvent ==
    /\ lastEvent' = [kind |-> "newOrder", item |-> None, raised |-> "",
                     anomaly |-> "", repeated |-> FALSE,
                     afterAnomaly |-> Anomalous(lastEvent)]
    /\ UNCHANGED <<snap, option, reqId, bracket, positions, orders, account,
                   accountLog>>
    /\ UNCHANGED setupVars

\* The position events delivered between trade events.
FewPositionItems ==
    [contract : {OptionContract("P"), WarrantContract},
     position : {-1, 0},
     avgCost : {1}]

FewPositionEvent ==
    /\ onPositionEvent(FewPositionItems)
    /\ UNCHANGED <<snap, option, reqId, bracket, orders, account, accountLog>>
    /\ UNCHANGED setupVars

NextTrade ==
    \/ process
    \/ onCommissionReportEvent
    \/ onOrderStatusEvent
    \/ onNewOrderEvent
    \/ FewPositionEvent

SpecTrade == Init /\ [][NextTrade]_vars

SpecPosition == Init /\ [][NextPosition]_vars

\* DataManager.initialize_assets hands the assets of the watch list to
\* IBDataAdapter.initialize_assets; the broker qualifies some or all of the
\* contracts requested.
InitializeAssets ==
    /\ \E assets \in AssetLists :
        LET contracts == initialize_assets_contracts(assets)
        IN  \E q_contracts \in qualifyContracts(contracts) :
                initialized' = [assets |-> assets, contracts |-> contracts,
                                q_contracts |-> q_contracts,
                                result |-> initialize_assets(assets,
                                                             q_contracts)]
    /\ UNCHANGED tradingVars
    /\ UNCHANGED <<clock, orderData, built, watched, chain, startup, translated>>

\* Time passes.
Tick ==
    /\ clock < MaxClock
    /\ clock' = clock + 1
    /\ UNCHANGED tradingVars
    /\ UNCHANGED <<initialized, orderData, built, watched, chain, startup, translated>>

\* An OrderData is constructed for a reference and a role.
NewOrderData ==
    /\ Len(orderData) < MaxOrderData
    /\ \E reference \in References, rol \in DOMAIN OrderRol :
            orderData' = Append(orderData, OrderData(reference, rol, clock))
    /\ UNCHANGED tradingVars
    /\ UNCHANGED <<initialized, clock, built, watched, chain, startup, translated>>

NextOrderData == Tick \/ NewOrderData

SpecOrderData == Init /\ [][NextOrderData]_vars

\* translate_position constructs a PositionData for a position event.
NewPositionData ==
    /\ Len(built) < MaxPositionData
    /\ \E item \in StrikeItems :
        LET position == translate_position(item)
        IN  /\ position.raised = ""
            /\ built' = Append(built, position.value)
    /\ UNCHANGED tradingVars
    /\ UNCHANGED <<initialized, clock, orderData, watched, chain, startup, translated>>

NextPositionData == NewPositionData

SpecPositionData == Init /\ [][NextPositionData]_vars

\* asset.current = values, for any snapshot.
SetCurrent ==
    /\ \E values \in Snapshots : watched' = current_setter(watched, values)
    /\ UNCHANGED tradingVars
    /\ UNCHANGED <<initialized, clock, orderData, built, chain, startup, translated>>

\* asset.historical = values
SetHistorical ==
    /\ \E values \in BarSeries :
            watched' = historical_setter(watched, values, clock)
    /\ UNCHANGED tradingVars
    /\ UNCHANGED <<initialized, clock, orderData, built, chain, startup, translated>>

\* asset.historical_IV = values
SetHistoricalIV ==
    /\ \E values \in BarSeries :
            watched' = historical_IV_setter(watched, values, clock)
    /\ UNCHANGED tradingVars
    /\ UNCHANGED <<initialized, clock, orderData, built, chain, startup, translated>>

NextAsset == Tick \/ SetCurrent \/ SetHistorical \/ SetHistoricalIV

SpecAsset == Init /\ [][NextAsset]_vars

\* create_optionchain up to its first loop: the candidate contracts are
\* built, here numbered in the order of the list.
create_optionchain ==
    /\ chain.pc = "idle"
    /\ \E n \in 0..MaxContracts :
        LET contracts == [i \in 1..n |-> i]
        IN  chain' = [pc |-> "qualify", contracts |-> contracts,
                      todo |-> chunks(contracts, BatchSize),
                      q_contracts |-> <<>>, calls |-> <<>>]
    /\ UNCHANGED tradingVars
    /\ UNCHANGED <<initialized, clock, orderData, built, watched, startup, translated>>

\* One pass of 'for c in chunks(contracts, 50)': qualify the batch, sleep.
qualify_chunk ==
    /\ chain.pc = "qualify"
    /\ chain.todo # <<>>
    /\ LET c == Head(chain.todo)
       IN  \E qualified \in qualifyBatch(c) :
            chain' = [chain EXCEPT
                        !.q_contracts = @ \o qualified,
                        !.todo = Tail(@),
                        !.calls = @ \o <<Call("qualifyContracts", c),
                                         Call("sleep", <<>>)>>]
    /\ UNCHANGED tradingVars
    /\ UNCHANGED <<initialized, clock, orderData, built, watched, startup, translated>>

\* One pass of 'for q in chunks(q_contracts, 50)' in create_optionchain:
\* request the tickers of the batch, sleep.
request_tickers_chunk ==
    /\ chain.pc = "tickers"
    /\ chain.todo # <<>>
    /\ chain' = [chain EXCEPT
                    !.todo = Tail(@),
                    !.calls = @ \o <<Call("reqTickers", Head(chain.todo)),
                                     Call("sleep", <<>>)>>]
    /\ UNCHANGED tradingVars
    /\ UNCHANGED <<initialized, clock, orderData, built, watched, startup, translated>>

\* One pass of 'for q in chunks(q_contracts, 50)' in create_options:
\* request the tickers of the batch, sleep.
create_options_chunk ==
    /\ chain.pc = "create_options"
    /\ chain.todo # <<>>
    /\ chain' = [chain EXCEPT
                    !.todo = Tail(@),
                    !.calls = @ \o <<Call("reqTickers", Head(chain.todo)),
                                     Call("sleep", <<>>)>>]
    /\ UNCHANGED tradingVars
    /\ UNCHANGED <<initialized, clock, orderData, built, watched, startup, translated>>

\* A loop has run out of batches: the next loop starts over the qualified
\* contracts, and after the loop of create_options the run is done.
chain_loop_end ==
    /\ chain.pc \in {"qualify", "tickers", "create_options"}
    /\ chain.todo = <<>>
    /\ chain' = [chain EXCEPT
                    !.pc = IF @ = "qualify" THEN "tickers"
                           ELSE IF @ = "tickers" THEN "create_options"
                           ELSE "done",
                    !.todo = IF chain.pc = "create_options" THEN <<>>
                             ELSE chunks(chain.q_contracts, BatchSize)]
    /\ UNCHANGED tradingVars
    /\ UNCHANGED <<initialized, clock, orderData, built, watched, startup, translated>>

NextChain ==
    \/ create_optionchain
    \/ qualify_chunk
    \/ request_tickers_chunk
    \/ create_options_chunk
    \/ chain_loop_end

SpecChain == Init /\ [][NextChain]_vars

\* The next statement of Optopus.start.
start_statement ==
    /\ startup.pc <= Len(StartStatements)
    /\ LET statement == StartStatements[startup.pc]
       IN  startup' = [startup EXCEPT
                          !.pc = @ + 1,
                          !.slots = IF statement \in Slots
                                    THEN [@ EXCEPT ![statement] = TRUE]
                                    ELSE @,
                          !.connected = @ \/ statement = "connect"]
    /\ UNCHANGED tradingVars
    /\ UNCHANGED <<initialized, clock, orderData, built, watched, chain, translated>>

\* The connected broker delivers an event to its subscribed handler, which
\* invokes its slot; an invocation of None is recorded.
deliver_event ==
    /\ startup.connected
    /\ \E event \in DOMAIN Subscribed :
            startup' = [startup EXCEPT
                          !.delivered = @ \cup {event},
                          !.unassigned =
                                IF startup.slots[Subscribed[event]] THEN @
                                ELSE @ \cup {event}]
    /\ UNCHANGED tradingVars
    /\ UNCHANGED <<initialized, clock, orderData, built, watched, chain, translated>>

NextStart == start_statement \/ deliver_event

SpecStart == Init /\ [][NextStart]_vars

\* The instrument type of a broker contract is translated, as update_assets
\* does for each ticker and translate_position for each position.
TranslateSectype ==
    /\ Len(translated) < MaxTranslated
    /\ \E secType \in SecTypes :
            translated' = Append(translated,
                                 [secType |-> secType,
                                  asset_type |-> translate_sectype(secType)])
    /\ UNCHANGED tradingVars
    /\ UNCHANGED <<initialized, clock, orderData, built, watched, chain, startup>>

NextSectype == TranslateSectype

SpecSectype == Init /\ [][NextSectype]_vars

NextAssets == InitializeAssets

SpecAssets == Init /\ [][NextAssets]_vars

\* ================================================================ claims
\* The value the three-step precedence picks before any -1 handling.
Chosen(s) ==
    IF Le(s.bid, s.last) /\ Le(s.last, s.ask) THEN s.last
    ELSE IF ~is_nan(Midpoint(s.bid, s.ask)) THEN Midpoint(s.bid, s.ask)
    ELSE IF ~is_nan(s.last) THEN s.last
    ELSE s.close

\* C1 (as stated): last within [bid, ask] gives market_price = last; else an
\* available midpoint gives market_price = midpoint; else last when there is
\* no midpoint at all; else close.
C1_AsStated ==
    snap # None => snap.market_price = Chosen(snap)

\* C1 (amended): market_price is the value the precedence picks, except that
\* a picked value of exactly -1 is replaced by close.
C1_MarketPricePrecedence ==
    snap # None =>
        snap.market_price =
            IF Chosen(snap) = MinusOne THEN snap.close ELSE Chosen(snap)

\* C1 witness: last sits on the edge of [bid, ask] and is the market price,
\* although the midpoint is a different, available number.
C1_Witness ==
    /\ snap # None
    /\ snap.last = snap.bid
    /\ ~is_nan(snap.midpoint)
    /\ snap.midpoint # snap.last
    /\ snap.last # MinusOne
    /\ snap.market_price = snap.last

\* C2: a last price of exactly -1 gives the market price the same snapshot
\* would have with last = not-a-number.
C2_MinusOneIsUnavailable ==
    (snap # None /\ snap.last = MinusOne) =>
        snap.market_price =
            AssetData(snap.bid, snap.ask, nan, snap.close).market_price

\* C3: for a call intrinsic = max(0, U-K) and in-the-money iff U >= K; for a
\* put intrinsic = max(0, K-U) and in-the-money iff U <= K; otherwise
\* out-of-the-money; extrinsic = P - intrinsic, not clamped.
C3_Moneyness ==
    (option # None /\ option.moneyness # "NA") =>
        LET K == option.strike
            U == option.underlying_price.v
            P == option.option_price.v
            itm == IF option.right = "C" THEN U >= K ELSE U <= K
            intrinsic == IF option.right = "C"
                         THEN (IF U - K > 0 THEN U - K ELSE 0)
                         ELSE (IF K - U > 0 THEN K - U ELSE 0)
        IN  /\ option.moneyness = (IF itm THEN "ITM" ELSE "OTM")
            /\ option.intrinsic_value = Num(intrinsic)
            /\ option.extrinsic_value = Num(P - intrinsic)

\* C3 witness: an at-the-money put is in-the-money with intrinsic 0, and its
\* extrinsic value is the whole option price.
C3_Witness ==
    /\ option # None
    /\ option.right = "P"
    /\ option.underlying_price = Num(option.strike)
    /\ option.moneyness = "ITM"
    /\ option.intrinsic_value = Num(0)
    /\ option.extrinsic_value = option.option_price

\* C4: the take-profit price is entry price x the leg's take-profit factor
\* and the stop trigger is entry price x the leg's stop-loss factor.
C4_BracketPricing ==
    bracket # None =>
        LET leg == bracket.leg
            entry == bracket.orders[1].price
        IN  /\ bracket.orders[2].price * leg.take_profit_factor.den
                    = entry * leg.take_profit_factor.num
            /\ bracket.orders[3].price * leg.stop_loss_factor.den
                    = entry * leg.stop_loss_factor.num

\* C6: a position event identical to the event delivered just before it
\* leaves the ledger as the first delivery left it.
C6_PositionEventIdempotent ==
    [][(lastEvent.kind = "position" /\ lastEvent'.kind = "position"
            /\ lastEvent'.item = lastEvent.item)
        => positions' = positions]_vars

\* C6 witness: the same event has been delivered twice in a row to a linked
\* position whose quantity and cost it overwrote.
C6_Witness ==
    /\ lastEvent.kind = "position"
    /\ lastEvent.repeated
    /\ lastEvent.raised = ""
    /\ \E id \in DOMAIN positions :
            /\ positions[id].algorithm # Nil
            /\ positions[id].quantity = Abs(lastEvent.item.position)
            /\ positions[id].average_cost = lastEvent.item.avgCost
            /\ RightType[positions[id].right] = lastEvent.item.contract.right

\* The positions the ledger holds for a broker contract, whatever the side.
HeldFor(ledger, contract) ==
    {id \in DOMAIN ledger :
        /\ ledger[id].code = contract.symbol
        /\ contract.right \in DOMAIN right_translation
        /\ ledger[id].right = right_translation[contract.right]
        /\ ledger[id].strike = contract.strike
        /\ contract.lastTradeDateOrContractMonth # <<>>
        /\ ledger[id].expiration
                = parse_ib_date(contract.lastTradeDateOrContractMonth)}

\* C7: a position event reporting zero quantity for a contract the ledger
\* holds a position for is handled without failure and removes the position.
C7_ZeroQuantityRemoves ==
    [][(lastEvent'.kind = "position" /\ lastEvent' # lastEvent
            /\ lastEvent'.item.position = 0
            /\ HeldFor(positions, lastEvent'.item.contract) # {})
        => (/\ lastEvent'.raised = ""
            /\ HeldFor(positions', lastEvent'.item.contract) = {})]_vars

\* The terminal statuses of an order.
Terminal == {"Filled", "Cancelled", "Inactive"}

\* C5: an order's status changes only to a status reachable from the one it
\* has, and never changes once it is filled, cancelled or inactive.
C5_ForwardOnlyStatus ==
    [][\A id \in DOMAIN orders :
          /\ id \in DOMAIN orders'
          /\ orders'[id].status # orders[id].status
                => Reachable(orders[id].status, orders'[id].status)
          /\ orders[id].status \in Terminal
                => orders'[id].status = orders[id].status]_vars

\* C5 witness: a filled order was reported with another status, and the
\* report was discarded.
C5_Witness ==
    /\ lastEvent.kind = "trade"
    /\ lastEvent.anomaly = "status regression"
    /\ lastEvent.item.orderStatus.status = "Submitted"
    /\ \E id \in DOMAIN orders : orders[id].status = "Filled"

\* The reference string of a trade names no order of the ledger.
Orphaned(item, ledger) ==
    \/ item.order.orderRef = <<>>
    \/ /\ Len(item.order.orderRef) = 3
       /\ <<item.order.orderRef[2], item.order.orderRef[3]>>
              \notin DOMAIN ledger

TranslationFails(kind, item) ==
    \/ item.contract.secType \notin DOMAIN AssetType
                                  \cup {AssetType[m] : m \in DOMAIN AssetType}
    \/ /\ kind = "trade"
       /\ \/ item.order.action \notin {OwnershipType[m] : m \in DOMAIN OwnershipType}
          \/ item.orderStatus.status \notin DOMAIN order_status_translation
          \/ Len(item.order.orderRef) \notin {0, 3}
          \/ /\ Len(item.order.orderRef) = 3
             /\ \/ Len(item.order.orderRef[2]) # 4
                \/ item.order.orderRef[2][2]
                      \notin {StrategyType[m] : m \in DOMAIN StrategyType}

Reported(item) ==
    IF item.currency # "" /\ item.value \in NumberTexts
    THEN Money(item.value, item.currency)
    ELSE Value(item.value)

\* The last two account-value events were for two different fields of the
\* table.
TwoFields ==
    /\ Len(accountLog) >= 2
    /\ LET first == accountLog[Len(accountLog) - 1].item
           second == accountLog[Len(accountLog)].item
       IN  /\ first.tag \in DOMAIN account_translation
           /\ second.tag \in DOMAIN account_translation
           /\ first.tag # second.tag

\* After the last two events: both fields hold what was reported and every
\* other field is as it was before the two.
BothMerged ==
    LET first == accountLog[Len(accountLog) - 1]
        second == accountLog[Len(accountLog)]
        f1 == account_translation[first.item.tag]
        f2 == account_translation[second.item.tag]
    IN  /\ account[f1] = Reported(first.item)
        /\ account[f2] = Reported(second.item)
        /\ \A g \in DOMAIN account \ {f1, f2} : account[g] = first.before[g]

\* C9 (as stated): after two account-value events for two different fields
\* of the table, both fields hold the reported values and every other field
\* is unchanged.
C9_AsStated == TwoFields => BothMerged

\* The event reports a number in BASE or in a currency that is not the
\* account's: its translation carries neither value nor money.
CarriesNothing(item) ==
    item.currency # "" /\ item.value \in NumberTexts /\ item.currency # CURRENCY

\* C9 (amended): the same, for events that report a text, a value without
\* currency or a number in the account's currency.
C9_AccountMerge ==
    (/\ TwoFields
     /\ ~CarriesNothing(accountLog[Len(accountLog) - 1].item)
     /\ ~CarriesNothing(accountLog[Len(accountLog)].item))
        => BothMerged

\* C9 witness: a text for one field, then a number in the account's currency
\* for another; both are held, one as a value and one as money.
C9_Witness ==
    /\ TwoFields
    /\ accountLog[1].item.tag = "AccountCode"
    /\ accountLog[2].item.tag = "NetLiquidation"
    /\ account["id"] = Value("DU1")
    /\ account["net_liquidation"] = Money("7", CURRENCY)

\* C11: initialize_assets aborts with an error exactly when the broker
\* returns fewer qualified contracts than the number of contracts requested,
\* and when every requested contract is qualified it returns a mapping with
\* one entry per asset of the list, keyed by symbol, whatever the asset types.
C11_AbortIffFewerQualified ==
    initialized # None =>
        LET fewer == Len(initialized.q_contracts) < Len(initialized.contracts)
            codes == {initialized.assets[i].code :
                          i \in 1..Len(initialized.assets)}
        IN  /\ (initialized.result.raised # "") <=> fewer
            /\ ~fewer => /\ initialized.result.raised = ""
                         /\ DOMAIN initialized.result.value = codes

\* A list of indices and stocks the broker qualifies in full: the mapping
\* is returned.
C11_AllQualified ==
    /\ initialized # None
    /\ Len(initialized.assets) = 2
    /\ initialized.result.raised = ""

\* C12: an account-value event whose tag is not in the account-tag table
\* is translated to nothing, invokes the account-item callback not at all and
\* leaves every account field as it was; an event whose tag is in the table
\* invokes the callback exactly once, with the internal metric name the
\* table gives the tag.
C12_UnknownTagIgnored ==
    \A i \in 1..Len(accountLog) :
        LET e == accountLog[i]
            after == IF i < Len(accountLog) THEN accountLog[i + 1].before
                     ELSE account
        IN  IF e.item.tag \in DOMAIN account_translation
            THEN /\ Len(e.calls) = 1
                 /\ e.calls[1].tag = account_translation[e.item.tag]
            ELSE /\ translate_account_value(e.item) = None
                 /\ e.calls = <<>>
                 /\ after = e.before

\* An event of a known tag set a field, then an event of an unknown tag
\* came.
C12_Witness ==
    /\ Len(accountLog) = 2
    /\ accountLog[1].item.tag = "NetLiquidation"
    /\ accountLog[2].before.net_liquidation # None
    /\ accountLog[2].item.tag = "Leverage"

\* C13: order identifiers are unique: any two distinct OrderData objects
\* have different order_id values, also when both were created for the same
\* reference and role within the same clock second.
C13_OrderIdUnique ==
    \A i, j \in 1..Len(orderData) :
        i # j => orderData[i].order_id # orderData[j].order_id

\* C14: the identifier positions are looked up by is injective on the
\* composite key (code, ownership side, right, strike, expiration): two
\* PositionData with different composite keys, for example strikes that
\* differ only in the second decimal, never have the same position_id.
C14_PositionIdInjective ==
    \A i, j \in 1..Len(built) :
        CompositeKey(built[i]) # CompositeKey(built[j])
            => built[i].position_id # built[j].position_id

\* C15: replacement of an Asset's current snapshot is monotonic by
\* timestamp: an assignment of a snapshot older than the one held is rejected
\* and the held snapshot is unchanged, so the time of the held snapshot never
\* decreases.
C15_CurrentMonotonic ==
    [][(watched._data # None /\ watched'._data # None)
          => watched'._data.time >= watched._data.time]_vars

\* C16: _place_SNP places exactly three orders in the sequence entry,
\* take-profit, stop-loss: the entry carries the order's own side and price;
\* both protective orders carry the reverse side, the quantity of the entry
\* and the entry's broker order id as parent; the three broker order ids are
\* pairwise distinct; entry and take-profit are placed with transmit off and
\* only the order placed last, the stop-loss, with transmit on.
C16_BracketShape ==
    bracket # None =>
        LET placed == bracket.orders
            order == OrderOfLeg(bracket.leg)
            reverse == IF order.action = "SELL" THEN "BUY" ELSE "SELL"
        IN  /\ Len(placed) = 3
            /\ placed[1].kind = "LimitOrder"
            /\ placed[2].kind = "LimitOrder"
            /\ placed[3].kind = "StopOrder"
            /\ placed[1].action = order.action
            /\ placed[1].price = order.price
            /\ placed[1].totalQuantity = order.quantity
            /\ \A i \in {2, 3} :
                    /\ placed[i].action = reverse
                    /\ placed[i].totalQuantity = placed[1].totalQuantity
                    /\ placed[i].parentId = placed[1].orderId
            /\ \A i, k \in 1..3 :
                    i # k => placed[i].orderId # placed[k].orderId
            /\ \A i \in 1..3 : placed[i].transmit <=> i = 3

\* C16 witness: a second bracket, for a leg that sells two contracts.
C16_Witness ==
    /\ bracket # None
    /\ bracket.leg.ownership = "SELL"
    /\ bracket.leg.quantity = 2
    /\ bracket.orders[1].orderId > 1
    /\ bracket.orders[3].transmit

\* The positions the ledger holds under the composite key of a position
\* event: code, side by the sign of the quantity, right, strike, expiration.
HeldAs(ledger, item) ==
    LET contract == item.contract
    IN  {id \in DOMAIN ledger :
            /\ ledger[id].code = contract.symbol
            /\ ledger[id].ownership
                    = (IF item.position > 0 THEN "Buyer" ELSE "Seller")
            /\ ledger[id].right
                    = (IF contract.right \in DOMAIN right_translation
                       THEN right_translation[contract.right] ELSE Nil)
            /\ ledger[id].strike = contract.strike
            /\ ledger[id].expiration
                    = (IF contract.lastTradeDateOrContractMonth # <<>>
                       THEN parse_ib_date(contract.lastTradeDateOrContractMonth)
                       ELSE None)}

\* C17: after a position event with a quantity other than zero, for an
\* instrument type the translator knows, the ledger holds a position under
\* the event's composite key (Buyer for a positive quantity, Seller for a
\* negative one) with the absolute quantity and the reported average cost;
\* if the position was held before, its algorithm, strategy and role are as
\* they were; every other position is untouched.
C17_PositionUpsert ==
    [][(/\ lastEvent'.kind = "position"
        /\ lastEvent'.item.position # 0
        /\ lastEvent'.item.contract.secType \in DOMAIN sectype_translation)
        => LET item == lastEvent'.item
               held == HeldAs(positions', item)
           IN  /\ held # {}
               /\ \A id \in held :
                    /\ positions'[id].quantity = Abs(item.position)
                    /\ positions'[id].average_cost = item.avgCost
                    /\ id \in DOMAIN positions =>
                         /\ positions'[id].algorithm = positions[id].algorithm
                         /\ positions'[id].strategy = positions[id].strategy
                         /\ positions'[id].rol = positions[id].rol
               /\ \A id \in DOMAIN positions \ held :
                    /\ id \in DOMAIN positions'
                    /\ positions'[id] = positions[id]]_vars

\* The batches handed to the broker by the calls of one operation, joined
\* in the order of the calls.
RECURSIVE Requested(_, _)
Requested(calls, op) ==
    IF Len(calls) = 0 THEN <<>>
    ELSE (IF Head(calls).op = op THEN Head(calls).args ELSE <<>>)
            \o Requested(Tail(calls), op)

\* C18: each batch handed to qualifyContracts has at least 1 and at most 50
\* contracts, the batches joined in order are the list of candidates once
\* the loop has ended (and a prefix of it before), and each batch request is
\* followed by exactly one pacing sleep before anything else is issued.
C18_BoundedBatches ==
    chain.pc # "idle" =>
        LET calls == chain.calls
            joined == Requested(calls, "qualifyContracts")
        IN  /\ \A i \in 1..Len(calls) :
                    calls[i].op = "qualifyContracts" =>
                        /\ Len(calls[i].args) >= 1
                        /\ Len(calls[i].args) <= 50
                        /\ i < Len(calls)
                        /\ calls[i + 1].op = "sleep"
                        /\ i + 2 <= Len(calls) => calls[i + 2].op # "sleep"
            /\ Len(joined) <= Len(chain.contracts)
            /\ joined = SubSeq(chain.contracts, 1, Len(joined))
            /\ chain.pc # "qualify" => joined = chain.contracts

\* C18 witness: a chain of more than two full batches has been qualified.
C18_Witness ==
    /\ chain.pc = "done"
    /\ Len(chain.contracts) > 2 * BatchSize
    /\ Len(chain.q_contracts) < Len(chain.contracts)

\* C19: in one run of create_optionchain a quote is requested from the
\* broker exactly once for each qualified option contract.
C19_QuoteRequestedOnce ==
    chain.pc = "done" =>
        LET quoted == Requested(chain.calls, "reqTickers")
        IN  \A k \in 1..Len(chain.q_contracts) :
                Cardinality({i \in 1..Len(quoted) :
                                quoted[i] = chain.q_contracts[k]}) = 1

\* C20: every callback slot a subscribed handler invokes is assigned before
\* connect() is called, so no broker event delivered after the connection is
\* opened reaches an unassigned callback.
C20_SlotsAssignedBeforeConnect ==
    /\ startup.connected =>
            \A event \in DOMAIN Subscribed : startup.slots[Subscribed[event]]
    /\ startup.unassigned = {}

\* C20 witness: start has returned and every subscribed event has been
\* delivered.
C20_Witness ==
    /\ startup.pc > Len(StartStatements)
    /\ startup.connected
    /\ startup.delivered = DOMAIN Subscribed

\* C21: for every instrument-type code of the translator's table the
\* translated AssetType member is the one whose own value is that code, and
\* no two codes translate to the same member.
C21_SectypeInverse ==
    \A i, j \in 1..Len(translated) :
        (translated[i].asset_type.raised = ""
            /\ translated[j].asset_type.raised = "")
        => /\ AssetType[translated[i].asset_type.value]
                    = translated[i].secType
           /\ translated[i].secType # translated[j].secType
                => translated[i].asset_type.value
                        # translated[j].asset_type.value

\* C22: after an assignment to Asset.historical the timestamp that
\* historical_is_updated reads is the time of that assignment, so the check
\* answers differently at the time of the assignment and a day later; the
\* same for Asset.historical_IV and historical_IV_is_updated.
C22_HistoricalTimestamp ==
    [][\A values \in BarSeries :
        /\ watched' = historical_setter(watched, values, clock)
            => /\ watched'._historical_updated = clock
               /\ historical_is_updated(watched', clock)
                    # historical_is_updated(watched', clock + TicksPerDay)
        /\ watched' = historical_IV_setter(watched, values, clock)
            => /\ watched'._historical_IV_updated = clock
               /\ historical_IV_is_updated(watched', clock)
                    # historical_IV_is_updated(watched',
                                               clock + TicksPerDay)]_vars

====
